---------------------------- MODULE Spec2Model ----------------------------
(***************************************************************************)
(* Model of the Algebra event pool of paraswap-dex-lib                     *)
(* (src/dex/algebra/algebra.ts): the per-pool PoolState object and the    *)
(* event handlers that processLog dispatches to.                           *)
(*                                                                         *)
(* The handlers receive the subscriber's state object and assign to its   *)
(* fields, so the model keeps ONE object, `pool`, whose content every      *)
(* handler changes in place.  A handler that throws part-way leaves the    *)
(* assignments it already made in that object; processLog then returns     *)
(* null.  `hist` records, for every processLog call, the decoded log, the  *)
(* content of the state object before and after the call and what the     *)
(* call returned.                                                          *)
(***************************************************************************)
EXTENDS Integers, Sequences, FiniteSets, TLC

(***************************************************************************)
(* Bounds of the model.                                                    *)
(***************************************************************************)
MaxTick == 1
\* tick indices of payloads and of the initial book range over -MaxTick..MaxTick
MaxAmount == 2
\* liquidity amounts of Mint / Burn payloads range over 1..MaxAmount
MaxInitPositions == 2
\* the initial book holds at most this many open positions
MaxEvents == 2
\* number of logs delivered to processLog in one behaviour

InitializeFee == 500
\* algebra.ts:214, the fee handleInitialize assigns

TickRange == (0 - MaxTick)..MaxTick
Amounts == 1..MaxAmount
Fees == {InitializeFee, 3000}
SwapLiquidities == 0..MaxAmount

VARIABLES pool, hist, msbCall, gen, rec, price, tickCall

vars == <<pool, hist, msbCall, gen, rec, price, tickCall>>

\* what stays as it is while logs are delivered to the event pool
others == <<msbCall, gen, rec, price, tickCall>>

(***************************************************************************)
(* types.ts: TickState, and what handleMint really pushes.                 *)
(* An element of pool.ticks is either a TickState object or a bare number: *)
(* handleMint pushes `bottomTick` / `topTick` themselves (lines 187, 196). *)
(***************************************************************************)
TickState(i, d, u) ==
    [kind |-> "TickState", tickIdx |-> i, liquidityDelta |-> d, upper |-> u]

RawNumber(n) == [kind |-> "number", value |-> n]

PoolState(ts, t, l, f) ==
    [ticks |-> ts, currentTick |-> t, currentLiquidity |-> l, fee |-> f]

\* A state object whose `ticks` property is undefined (generateState builds
\* such objects) is a record without the field: getTickIdx then throws on
\* `ticks.length` before the handler assigned anything.
HasTicks(p) == "ticks" \in DOMAIN p

\* `x.tickIdx` is defined only on a TickState object; on a number it reads
\* as undefined.
HasTickIdx(x) == x.kind = "TickState"

(***************************************************************************)
(* getTickIdx (algebra.ts:136-149): binary search, JS indices 0..length-1, *)
(* -1 when not found.  For an element without tickIdx both                 *)
(* `undefined === tick` and `tick < undefined` are false, so the search    *)
(* goes right.                                                             *)
(***************************************************************************)
RECURSIVE TickIdxLoop(_, _, _, _)
TickIdxLoop(tick, ticks, left, right) ==
    IF left > right
    THEN -1
    ELSE LET mid == (left + right) \div 2
             e == ticks[mid + 1]
         IN  IF HasTickIdx(e) /\ e.tickIdx = tick
             THEN mid
             ELSE IF HasTickIdx(e) /\ tick < e.tickIdx
                  THEN TickIdxLoop(tick, ticks, left, mid - 1)
                  ELSE TickIdxLoop(tick, ticks, mid + 1, right)

\* the same search with the loop test written `left < right`
RECURSIVE TickIdxLoopStrict(_, _, _, _)
TickIdxLoopStrict(tick, ticks, left, right) ==
    IF left >= right
    THEN -1
    ELSE LET mid == (left + right) \div 2
             e == ticks[mid + 1]
         IN  IF HasTickIdx(e) /\ e.tickIdx = tick
             THEN mid
             ELSE IF HasTickIdx(e) /\ tick < e.tickIdx
                  THEN TickIdxLoopStrict(tick, ticks, left, mid - 1)
                  ELSE TickIdxLoopStrict(tick, ticks, mid + 1, right)

getTickIdx_StrictLoop(tick, ticks) ==
    TickIdxLoopStrict(tick, ticks, 0, Len(ticks) - 1)

getTickIdx(tick, ticks) == TickIdxLoop(tick, ticks, 0, Len(ticks) - 1)

(***************************************************************************)
(* pool.ticks.sort(function (a, b) { return a.tickIdx - b.tickIdx })       *)
(* (algebra.ts:204-206).  The comparator yields NaN as soon as one         *)
(* operand is a bare number; Array.prototype.sort reads NaN as +0.  The    *)
(* sort is the stable insertion sort the engines run on short arrays.      *)
(***************************************************************************)
SortCompare(a, b) ==
    IF HasTickIdx(a) /\ HasTickIdx(b) THEN a.tickIdx - b.tickIdx ELSE 0

RECURSIVE InsertSorted(_, _)
InsertSorted(s, x) ==
    IF s = <<>>
    THEN <<x>>
    ELSE IF SortCompare(x, s[Len(s)]) < 0
         THEN Append(InsertSorted(SubSeq(s, 1, Len(s) - 1), x), s[Len(s)])
         ELSE Append(s, x)

RECURSIVE SortFrom(_, _)
SortFrom(done, rest) ==
    IF rest = <<>>
    THEN done
    ELSE SortFrom(InsertSorted(done, Head(rest)), Tail(rest))

sort(ticks) == SortFrom(<<>>, ticks)

(***************************************************************************)
(* Results of a handler: the content of the state object when the handler  *)
(* ended, and whether it ended by throwing.                                *)
(***************************************************************************)
Returned(p) == [pool |-> p, threw |-> FALSE]
Thrown(p) == [pool |-> p, threw |-> TRUE]

\* pool.ticks[idx].liquidityDelta += amt  (idx is a JS index)
AddDelta(p, idx, amt) ==
    [p EXCEPT !.ticks[idx + 1].liquidityDelta = @ + amt]

\* pool.ticks.push(n)
PushNumber(p, n) == [p EXCEPT !.ticks = Append(@, RawNumber(n))]

(***************************************************************************)
(* handleSwap (algebra.ts:125-129) reads event.arg, a property the decoded *)
(* event does not have (the decoder fills `args`): `event.arg.tick` is a   *)
(* property read on undefined and throws before any assignment.            *)
(***************************************************************************)
handleSwap(event, p) ==
    IF "arg" \in DOMAIN event
    THEN Returned([p EXCEPT !.currentTick = event.arg.tick,
                            !.currentLiquidity = event.arg.liquidity])
    ELSE Thrown(p)

\* handleChangeFee (algebra.ts:131-134)
handleChangeFee(event, p) == Returned([p EXCEPT !.fee = event.args.Fee])

(***************************************************************************)
(* handleBurn (algebra.ts:151-178).  pool.ticks[-1] is undefined, so       *)
(* reading `.upper` of it throws: for bottomTick before anything is        *)
(* assigned, for topTick after the bottom entry was already changed.       *)
(* pool.ticks.slice(i, 1) (lines 169, 172) builds a new array that is      *)
(* dropped; pool.ticks keeps every entry.                                  *)
(***************************************************************************)
handleBurn(event, p) ==
    LET burntLiquidity == event.args.amount
        bottomTick == event.args.bottomTick
        topTick == event.args.topTick
        bottomTickIdx == getTickIdx(bottomTick, p.ticks)
        topTickIdx == getTickIdx(topTick, p.ticks)
    IN  IF ~HasTicks(p) \/ bottomTickIdx = -1
        THEN Thrown(p)
        ELSE LET p1 == IF p.ticks[bottomTickIdx + 1].upper
                       THEN AddDelta(p, bottomTickIdx, burntLiquidity)
                       ELSE AddDelta(p, bottomTickIdx, 0 - burntLiquidity)
             IN  IF topTickIdx = -1
                 THEN Thrown(p1)
                 ELSE LET p2 == IF p1.ticks[topTickIdx + 1].upper
                                THEN AddDelta(p1, topTickIdx, 0 - burntLiquidity)
                                ELSE AddDelta(p1, topTickIdx, burntLiquidity)
                      IN  IF p2.currentTick < topTick /\ p2.currentTick > bottomTick
                          THEN Returned([p2 EXCEPT !.currentLiquidity =
                                                       @ - burntLiquidity])
                          ELSE Returned(p2)

(***************************************************************************)
(* handleMint (algebra.ts:180-211).  Both indices are looked up before     *)
(* anything is pushed; a missing boundary is pushed as the bare tick       *)
(* number; then the array is sorted.                                       *)
(***************************************************************************)
handleMint(event, p) ==
    LET addedLiquidity == event.args.amount
        bottomTick == event.args.bottomTick
        topTick == event.args.topTick
        bottomTickIdx == getTickIdx(bottomTick, p.ticks)
        topTickIdx == getTickIdx(topTick, p.ticks)
        p1 == IF bottomTickIdx = -1
              THEN PushNumber(p, bottomTick)
              ELSE IF p.ticks[bottomTickIdx + 1].upper
                   THEN AddDelta(p, bottomTickIdx, 0 - addedLiquidity)
                   ELSE AddDelta(p, bottomTickIdx, addedLiquidity)
        p2 == IF topTickIdx = -1
              THEN PushNumber(p1, topTick)
              ELSE IF p1.ticks[topTickIdx + 1].upper
                   THEN AddDelta(p1, topTickIdx, addedLiquidity)
                   ELSE AddDelta(p1, topTickIdx, 0 - addedLiquidity)
        p3 == [p2 EXCEPT !.ticks = sort(@)]
    IN  IF ~HasTicks(p)
        THEN Thrown(p)
        ELSE IF p3.currentTick < topTick /\ p3.currentTick > bottomTick
             THEN Returned([p3 EXCEPT !.currentLiquidity = @ + addedLiquidity])
             ELSE Returned(p3)

\* handleInitialize (algebra.ts:213-217)
handleInitialize(event, p) ==
    Returned([p EXCEPT !.fee = InitializeFee, !.currentTick = event.args.tick])

\* this.handlers (algebra.ts:90-94)
HandlerNames == {"Swap", "ChangeFee", "Burn", "Mint", "Initialize"}

Dispatch(event, p) ==
    CASE event.name = "Swap" -> handleSwap(event, p)
      [] event.name = "ChangeFee" -> handleChangeFee(event, p)
      [] event.name = "Burn" -> handleBurn(event, p)
      [] event.name = "Mint" -> handleMint(event, p)
      [] event.name = "Initialize" -> handleInitialize(event, p)

(***************************************************************************)
(* processLog (algebra.ts:106-123).  A log is [decodes, event]: logDecoder *)
(* either throws or yields the event.  The result is the content of the    *)
(* state object after the call and the value returned: "null", or "state"  *)
(* for the very object that was passed in (every handler returns its       *)
(* `pool` parameter, the fall-through returns `state`).                    *)
(***************************************************************************)
\* processLog with the fall-through `return state` turned into `return null`
processLog_UnhandledIsNull(state, log) ==
    IF ~log.decodes
    THEN [after |-> state, returned |-> "null"]
    ELSE IF log.event.name \in HandlerNames
         THEN LET r == Dispatch(log.event, state)
              IN  [after |-> r.pool,
                   returned |-> IF r.threw THEN "null" ELSE "state"]
         ELSE [after |-> state, returned |-> "null"]

processLog(state, log) ==
    IF ~log.decodes
    THEN [after |-> state, returned |-> "null"]
    ELSE IF log.event.name \in HandlerNames
         THEN LET r == Dispatch(log.event, state)
              IN  [after |-> r.pool,
                   returned |-> IF r.threw THEN "null" ELSE "state"]
         ELSE [after |-> state, returned |-> "state"]

(***************************************************************************)
(* The initial book: a PoolState (types.ts) that represents a set of open  *)
(* positions.  A boundary's signed net liquidity is +liquidityDelta for a  *)
(* lower entry and -liquidityDelta for an `upper` entry, the reading under *)
(* which handleMint adds and handleBurn subtracts.                         *)
(***************************************************************************)
Positions ==
    {pos \in [bottomTick : TickRange, topTick : TickRange, amount : Amounts] :
        pos.bottomTick < pos.topTick}

RECURSIVE SumAmounts(_)
SumAmounts(S) ==
    IF S = {}
    THEN 0
    ELSE LET x == CHOOSE y \in S : TRUE
         IN  x.amount + SumAmounts(S \ {x})

NetAt(S, i) ==
    SumAmounts({pos \in S : pos.bottomTick = i})
        - SumAmounts({pos \in S : pos.topTick = i})

RECURSIVE TicksOf(_, _)
TicksOf(S, i) ==
    IF i > MaxTick
    THEN <<>>
    ELSE LET net == NetAt(S, i)
             here == IF net = 0
                     THEN <<>>
                     ELSE IF net < 0
                          THEN <<TickState(i, 0 - net, TRUE)>>
                          ELSE <<TickState(i, net, FALSE)>>
         IN  here \o TicksOf(S, i + 1)

ActiveLiquidity(S, t) ==
    SumAmounts({pos \in S : pos.bottomTick <= t /\ t < pos.topTick})

InitBooks ==
    {PoolState(TicksOf(S, 0 - MaxTick), t, ActiveLiquidity(S, t), f) :
        S \in {T \in SUBSET Positions : Cardinality(T) <= MaxInitPositions},
        t \in TickRange, f \in Fees}

\* no call of mostSignificantBit is under way
NoMsbCall == [done |-> FALSE, idle |-> TRUE]

\* no generateState call is being followed
NoGenCall == [done |-> FALSE, idle |-> TRUE]

\* no recovery is being followed
NoRecovery == [phase |-> "idle"]

\* no pricing call is being followed
NoPriceCall == [done |-> FALSE, idle |-> TRUE]

\* no getTickIdx call is being followed
NoTickCall == [done |-> FALSE, idle |-> TRUE]

Init ==
    /\ pool \in InitBooks
    /\ hist = <<>>
    /\ msbCall = NoMsbCall
    /\ gen = NoGenCall
    /\ rec = NoRecovery
    /\ tickCall = NoTickCall
    /\ price = NoPriceCall

(***************************************************************************)
(* One action per kind of log delivered to processLog.                     *)
(***************************************************************************)
Deliver(log) ==
    LET r == processLog(pool, log)
    IN  /\ pool' = r.after
        /\ hist' = Append(hist, [log |-> log, before |-> pool,
                                 after |-> r.after, returned |-> r.returned])
        /\ UNCHANGED others

Decoded(name, args) == [decodes |-> TRUE, event |-> [name |-> name, args |-> args]]

SwapLogs ==
    {Decoded("Swap", [tick |-> t, liquidity |-> l]) :
        t \in TickRange, l \in SwapLiquidities}

ChangeFeeLogs == {Decoded("ChangeFee", [Fee |-> f]) : f \in Fees}

BurnLogs ==
    {Decoded("Burn", [bottomTick |-> pos.bottomTick, topTick |-> pos.topTick,
                      amount |-> pos.amount]) : pos \in Positions}

MintLogs ==
    {Decoded("Mint", [bottomTick |-> pos.bottomTick, topTick |-> pos.topTick,
                      amount |-> pos.amount]) : pos \in Positions}

InitializeLogs ==
    {Decoded("Initialize", [tick |-> t, fee |-> f]) : t \in TickRange, f \in Fees}

\* a log of the ABI that has no handler
OtherLogs == {Decoded("Collect", [amount |-> 1])}

DecodedLogs ==
    SwapLogs \cup ChangeFeeLogs \cup BurnLogs \cup MintLogs
        \cup InitializeLogs \cup OtherLogs

SwapLog ==
    /\ Len(hist) < MaxEvents
    /\ \E log \in SwapLogs : Deliver(log)

ChangeFeeLog ==
    /\ Len(hist) < MaxEvents
    /\ \E log \in ChangeFeeLogs : Deliver(log)

BurnLog ==
    /\ Len(hist) < MaxEvents
    /\ \E log \in BurnLogs : Deliver(log)

MintLog ==
    /\ Len(hist) < MaxEvents
    /\ \E log \in MintLogs : Deliver(log)

InitializeLog ==
    /\ Len(hist) < MaxEvents
    /\ \E log \in InitializeLogs : Deliver(log)

OtherLog ==
    /\ Len(hist) < MaxEvents
    /\ \E log \in OtherLogs : Deliver(log)

\* a log logDecoder cannot parse
UndecodableLog ==
    /\ Len(hist) < MaxEvents
    /\ Deliver([decodes |-> FALSE])

Next ==
    \/ SwapLog
    \/ ChangeFeeLog
    \/ BurnLog
    \/ MintLog
    \/ InitializeLog
    \/ OtherLog
    \/ UndecodableLog

Spec == Init /\ [][Next]_vars

(***************************************************************************)
(* Vocabulary of the properties.                                           *)
(***************************************************************************)
Entries(ticks) == {ticks[k] : k \in 1..Len(ticks)}

\* signed net liquidity of an entry: +liquidityDelta for a lower entry,
\* -liquidityDelta for an upper one; a bare number carries none
SignedNet(e) ==
    IF ~HasTickIdx(e)
    THEN 0
    ELSE IF e.upper THEN 0 - e.liquidityDelta ELSE e.liquidityDelta

RECURSIVE NetSum(_, _)
NetSum(ticks, t) ==
    IF ticks = <<>>
    THEN 0
    ELSE LET e == Head(ticks)
         IN  (IF HasTickIdx(e) /\ e.tickIdx <= t THEN SignedNet(e) ELSE 0)
                 + NetSum(Tail(ticks), t)

\* signed net liquidity the book holds at tick index i (0 if no entry)
RECURSIVE NetOf(_, _)
NetOf(ticks, i) ==
    IF ticks = <<>>
    THEN 0
    ELSE LET e == Head(ticks)
         IN  (IF HasTickIdx(e) /\ e.tickIdx = i THEN SignedNet(e) ELSE 0)
                 + NetOf(Tail(ticks), i)

EntriesAt(ticks, i) == {e \in Entries(ticks) : HasTickIdx(e) /\ e.tickIdx = i}

EntriesNotAt(ticks, I) ==
    {e \in Entries(ticks) : ~(HasTickIdx(e) /\ e.tickIdx \in I)}

WellFormedTicks(ticks) ==
    /\ \A k \in 1..Len(ticks) : HasTickIdx(ticks[k])
    /\ \A k \in 1..(Len(ticks) - 1) : ticks[k].tickIdx < ticks[k + 1].tickIdx

Calls == {hist[k] : k \in 1..Len(hist)}

CallsOf(name) == {c \in Calls : c.log.decodes /\ c.log.event.name = name}

InRange(c) ==
    /\ c.log.event.args.bottomTick <= c.before.currentTick
    /\ c.before.currentTick < c.log.event.args.topTick

(***************************************************************************)
(* C1: in every reachable book currentLiquidity equals the sum of the      *)
(* signed liquidityNet of all ticks whose index is <= currentTick.         *)
(***************************************************************************)
C1_LiquidityIsNetSum ==
    pool.currentLiquidity = NetSum(pool.ticks, pool.currentTick)

(***************************************************************************)
(* C2: in every reachable book every entry of ticks is a well-formed tick  *)
(* record and the sequence is strictly ascending by tick index (so no two  *)
(* entries share an index), also after a Mint at a boundary that was not   *)
(* in the book.                                                            *)
(***************************************************************************)
C2_TicksStrictlyAscending == WellFormedTicks(pool.ticks)

(***************************************************************************)
(* C3: no reachable book holds a tick entry whose net liquidity delta is   *)
(* exactly zero: after a Burn that was applied, a boundary whose delta     *)
(* came to zero has no entry and every other entry is kept.                *)
(***************************************************************************)
C3_NoZeroNetEntry ==
    /\ \A e \in Entries(pool.ticks) : HasTickIdx(e) => e.liquidityDelta # 0
    /\ \A c \in CallsOf("Burn") :
          c.returned = "state" =>
              LET a == c.log.event.args.bottomTick
                  b == c.log.event.args.topTick
                  L == c.log.event.args.amount
              IN  /\ NetOf(c.before.ticks, a) - L = 0 => EntriesAt(c.after.ticks, a) = {}
                  /\ NetOf(c.before.ticks, b) + L = 0 => EntriesAt(c.after.ticks, b) = {}
                  /\ EntriesNotAt(c.after.ticks, {a, b})
                         = EntriesNotAt(c.before.ticks, {a, b})

(***************************************************************************)
(* C4: Mint(a, b, L) followed by Burn(a, b, L) is applied and yields a     *)
(* book identical to the one before the Mint: same ticks and               *)
(* currentLiquidity, fee and currentTick unchanged.                        *)
(***************************************************************************)
C4_MintThenBurnIsIdentity ==
    \A k \in 1..(Len(hist) - 1) :
        LET m == hist[k]
            u == hist[k + 1]
        IN  (/\ m.log.decodes /\ m.log.event.name = "Mint"
             /\ u.log.decodes /\ u.log.event.name = "Burn"
             /\ u.log.event.args = m.log.event.args)
            => /\ m.returned = "state"
               /\ u.returned = "state"
               /\ u.after = m.before

(***************************************************************************)
(* C5: applying Swap, Mint, Burn, ChangeFee or Initialize never changes    *)
(* the snapshot it was given (its ticks, currentTick, currentLiquidity and *)
(* fee read the same after the call as before), and the result is not the  *)
(* object that was passed in.                                              *)
(***************************************************************************)
C5_InputSnapshotUntouched ==
    \A c \in Calls :
        (c.log.decodes /\ c.log.event.name \in HandlerNames)
        => /\ c.after = c.before
           /\ c.returned # "state"

(***************************************************************************)
(* C6: when applying an event fails, processLog returns null and the       *)
(* previous snapshot is exactly as it was before the event; a log that     *)
(* cannot be decoded, a Swap that cannot be applied and a Burn at a        *)
(* boundary that has no entry are such failures.                           *)
(***************************************************************************)
C6_FailedEventLeavesSnapshot ==
    \A c \in Calls :
        /\ c.returned = "null" => c.after = c.before
        /\ ~c.log.decodes => c.returned = "null"
        /\ (/\ c.log.decodes
            /\ c.log.event.name = "Burn"
            /\ \/ EntriesAt(c.before.ticks, c.log.event.args.bottomTick) = {}
               \/ EntriesAt(c.before.ticks, c.log.event.args.topTick) = {})
           => c.returned = "null"

(***************************************************************************)
(* C7: after Mint(bottomTick, topTick, L) the book holds an entry at       *)
(* bottomTick whose signed net delta is its previous value (0 if absent)   *)
(* plus L and an entry at topTick whose signed net delta is its previous   *)
(* value (0 if absent) minus L; all other entries are unchanged.           *)
(***************************************************************************)
C7_MintAdjustsBothBoundaries ==
    \A c \in CallsOf("Mint") :
        LET a == c.log.event.args.bottomTick
            b == c.log.event.args.topTick
            L == c.log.event.args.amount
        IN  /\ c.returned = "state"
            /\ \E e \in EntriesAt(c.after.ticks, a) :
                   SignedNet(e) = NetOf(c.before.ticks, a) + L
            /\ \E e \in EntriesAt(c.after.ticks, b) :
                   SignedNet(e) = NetOf(c.before.ticks, b) - L
            /\ EntriesNotAt(c.after.ticks, {a, b})
                   = EntriesNotAt(c.before.ticks, {a, b})

(***************************************************************************)
(* C8: Mint(bottomTick, topTick, L) increases currentLiquidity by exactly  *)
(* L if and only if bottomTick <= currentTick < topTick, and otherwise     *)
(* leaves it unchanged.                                                    *)
(***************************************************************************)
C8_MintActivatesInRange ==
    \A c \in CallsOf("Mint") :
        c.after.currentLiquidity
            = c.before.currentLiquidity
                  + (IF InRange(c) THEN c.log.event.args.amount ELSE 0)

(***************************************************************************)
(* C9: currentLiquidity is never negative; a Burn in range                 *)
(* (bottomTick <= currentTick < topTick) with L > currentLiquidity is      *)
(* refused and leaves the book as it was, and an applied Burn in range     *)
(* with L <= currentLiquidity decrements currentLiquidity by exactly L.    *)
(***************************************************************************)
C9_LiquidityNeverNegative ==
    /\ pool.currentLiquidity >= 0
    /\ \A c \in CallsOf("Burn") :
          LET L == c.log.event.args.amount
          IN  /\ (InRange(c) /\ L > c.before.currentLiquidity)
                  => (c.returned = "null" /\ c.after = c.before)
              /\ (InRange(c) /\ L <= c.before.currentLiquidity
                             /\ c.returned = "state")
                  => c.after.currentLiquidity = c.before.currentLiquidity - L

(***************************************************************************)
(* C10: a Swap(newTick, newLiquidity) event is applied, and the resulting  *)
(* book has currentTick = newTick and currentLiquidity = newLiquidity from *)
(* the payload, with ticks and fee as before the event.                    *)
(***************************************************************************)
C10_SwapReplacesTickAndLiquidity ==
    \A c \in CallsOf("Swap") :
        /\ c.returned = "state"
        /\ c.after.currentTick = c.log.event.args.tick
        /\ c.after.currentLiquidity = c.log.event.args.liquidity
        /\ c.after.ticks = c.before.ticks
        /\ c.after.fee = c.before.fee

(***************************************************************************)
(* C11: after Initialize(tick, fee) is applied the book has                *)
(* currentTick = tick, fee = the fee carried by the event, an empty ticks  *)
(* sequence and currentLiquidity = 0.                                      *)
(***************************************************************************)
C11_InitializeSetsBook ==
    \A c \in CallsOf("Initialize") :
        /\ c.returned = "state"
        /\ c.after.currentTick = c.log.event.args.tick
        /\ c.after.fee = c.log.event.args.fee
        /\ c.after.ticks = <<>>
        /\ c.after.currentLiquidity = 0

(***************************************************************************)
(* C12: Initialize is applied only as the first transition: once an event  *)
(* has been applied to the book, a later Initialize is treated as invalid  *)
(* and changes neither currentTick nor fee.                                *)
(***************************************************************************)
C12_InitializeOnlyFirst ==
    \A k \in 2..Len(hist) :
        (/\ hist[k].log.decodes
         /\ hist[k].log.event.name = "Initialize"
         /\ \E j \in 1..(k - 1) :
               /\ hist[j].log.decodes
               /\ hist[j].log.event.name \in HandlerNames
               /\ hist[j].returned = "state")
        => /\ hist[k].after.currentTick = hist[k].before.currentTick
           /\ hist[k].after.fee = hist[k].before.fee

(***************************************************************************)
(* mostSignificantBit.ts.  A JSBI integer is modelled by its sign and the  *)
(* set of positions of the bits set in its magnitude, so that values up to *)
(* and beyond 2^256 keep their exact width: 2^p is {p}, MaxUint256 is      *)
(* 0..255.  Comparison and shift are computed on that representation.      *)
(***************************************************************************)
WordBits == 256
\* internalConstants.ts:12-14, MaxUint256 = 2^256 - 1

MsbExtraBits == 1
\* inputs have their top bit at a position up to WordBits - 1 + MsbExtraBits

JSBIValue(neg, bits) == [neg |-> neg, bits |-> bits]

ZERO == JSBIValue(FALSE, {})

MaxUint256 == JSBIValue(FALSE, 0..(WordBits - 1))

PowerOfTwo(p) == JSBIValue(FALSE, {p})

MaxOf(S) == CHOOSE b \in S : \A c \in S : c <= b

\* a > b on magnitudes: the highest position where they differ is set in a
MagnitudeGT(a, b) ==
    LET diff == (a \ b) \cup (b \ a)
    IN  diff # {} /\ MaxOf(diff) \in a

\* JSBI.GT / JSBI.greaterThan
JSBI_GT(x, y) ==
    IF x.neg # y.neg
    THEN y.neg
    ELSE IF x.neg
         THEN MagnitudeGT(y.bits, x.bits)
         ELSE MagnitudeGT(x.bits, y.bits)

\* JSBI.LE
JSBI_LE(x, y) == ~JSBI_GT(x, y)

\* JSBI.greaterThanOrEqual
JSBI_greaterThanOrEqual(x, y) == ~JSBI_GT(y, x)

\* JSBI.signedRightShift of a non-negative value: the bits below `power`
\* are dropped, the others move down
JSBI_signedRightShift(x, power) ==
    JSBIValue(x.neg, {b - power : b \in {c \in x.bits : c >= power}})

\* POWERS_OF_2 (mostSignificantBit.ts:5-10): [power, 2^power]
POWERS_OF_2 == <<128, 64, 32, 16, 8, 4, 2, 1>>

\* the for loop of mostSignificantBit (lines 15-22)
RECURSIVE MsbLoop(_, _, _)
MsbLoop(x, msb, k) ==
    IF k > Len(POWERS_OF_2)
    THEN msb
    ELSE LET power == POWERS_OF_2[k]
         IN  IF JSBI_greaterThanOrEqual(x, PowerOfTwo(power))
             THEN MsbLoop(JSBI_signedRightShift(x, power), msb + power, k + 1)
             ELSE MsbLoop(x, msb, k + 1)

\* the same loop with the threshold test written > instead of >=
RECURSIVE MsbLoopStrict(_, _, _)
MsbLoopStrict(x, msb, k) ==
    IF k > Len(POWERS_OF_2)
    THEN msb
    ELSE LET power == POWERS_OF_2[k]
         IN  IF JSBI_GT(x, PowerOfTwo(power))
             THEN MsbLoopStrict(JSBI_signedRightShift(x, power),
                                msb + power, k + 1)
             ELSE MsbLoopStrict(x, msb, k + 1)

Null == [isNull |-> TRUE]
Number(n) == [isNull |-> FALSE, value |-> n]

mostSignificantBit_Strict(x) ==
    IF JSBI_LE(x, ZERO) \/ JSBI_GT(x, MaxUint256)
    THEN Null
    ELSE Number(MsbLoopStrict(x, 0, 1))

\* the same function without the test against MaxUint256
mostSignificantBit_NoUpperTest(x) ==
    IF JSBI_LE(x, ZERO)
    THEN Null
    ELSE Number(MsbLoop(x, 0, 1))

\* mostSignificantBit (mostSignificantBit.ts:12-23)
mostSignificantBit(x) ==
    IF JSBI_LE(x, ZERO) \/ JSBI_GT(x, MaxUint256)
    THEN Null
    ELSE Number(MsbLoop(x, 0, 1))

(***************************************************************************)
(* Inputs of mostSignificantBit: zero, and for every top position h the    *)
(* values 2^h, 2^h + 1, 2^h + 2^(h-1) and 2^(h+1) - 1, with either sign.   *)
(***************************************************************************)
MsbMagnitudes ==
    {{}} \cup UNION {{{h}, {h, 0}, {h, IF h > 0 THEN h - 1 ELSE 0}, 0..h} :
                        h \in 0..(WordBits - 1 + MsbExtraBits)}

MsbInputs ==
    {JSBIValue(neg, bits) : neg \in BOOLEAN, bits \in MsbMagnitudes}
        \ {JSBIValue(TRUE, {})}

InitBitWidth ==
    /\ pool = PoolState(<<>>, 0, 0, InitializeFee)
    /\ hist = <<>>
    /\ \E x \in MsbInputs : msbCall = [done |-> FALSE, idle |-> FALSE, x |-> x]
    /\ gen = NoGenCall
    /\ rec = NoRecovery
    /\ tickCall = NoTickCall
    /\ price = NoPriceCall

MostSignificantBitCall ==
    /\ ~msbCall.idle
    /\ ~msbCall.done
    /\ msbCall' = [msbCall EXCEPT !.done = TRUE] @@
                      [result |-> mostSignificantBit(msbCall.x)]
    /\ UNCHANGED <<pool, hist, gen, rec, price, tickCall>>

NextBitWidth == MostSignificantBitCall

SpecBitWidth == InitBitWidth /\ [][NextBitWidth]_vars

\* the argument lies in 1 .. 2^256 - 1
MsbInRange(x) == ~x.neg /\ x.bits # {} /\ \A b \in x.bits : b < WordBits

(***************************************************************************)
(* C20: for every x with 1 <= x <= 2^256 - 1, mostSignificantBit(x)        *)
(* returns the unique r with 2^r <= x < 2^(r+1): bit r of x is set and no  *)
(* higher bit is.                                                          *)
(***************************************************************************)
C20_HighestSetBit ==
    (msbCall.done /\ MsbInRange(msbCall.x))
    => /\ ~msbCall.result.isNull
       /\ msbCall.result.value \in msbCall.x.bits
       /\ \A b \in msbCall.x.bits : b <= msbCall.result.value

\* 2^128 has been given and 128 returned
C20_Witness ==
    /\ msbCall.done
    /\ msbCall.x = PowerOfTwo(128)
    /\ msbCall.result = Number(128)

(***************************************************************************)
(* C21: for x <= 0 and for x > 2^256 - 1 (x = 0 and x = 2^256 among them)  *)
(* mostSignificantBit gives its out-of-range signal, which in this code is *)
(* the null return of `number | null`, and never a bit index.              *)
(***************************************************************************)
C21_OutOfRangeSignalled ==
    (msbCall.done /\ ~MsbInRange(msbCall.x))
    => msbCall.result = Null

\* 2^256 has been given and null returned
C21_Witness ==
    /\ msbCall.done
    /\ msbCall.x = PowerOfTwo(WordBits)
    /\ msbCall.result = Null


(***************************************************************************)
(* AlgebraEventPool.generateState (algebra.ts 228-280).                    *)
(* The subgraph's answer is an input: either no usable `data`, or `data`   *)
(* with a `pools` array and a `ticks` array of raw ticks.                  *)
(***************************************************************************)
\* longest raw tick list of a subgraph answer
MaxRawTicks == 2

RawTick(i, n, u) == [tickIdx |-> i, liquidityNet |-> n, upper |-> u]

RawTicks == {RawTick(i, n, u) : i \in TickRange, n \in Amounts, u \in BOOLEAN}

RECURSIVE ListsUpTo(_, _)
ListsUpTo(S, n) ==
    IF n = 0
    THEN {<<>>}
    ELSE LET shorter == ListsUpTo(S, n - 1)
         IN  shorter \cup {Append(l, x) : l \in shorter, x \in S}

RawPools ==
    {[tick |-> t, liquidity |-> l, fee |-> f] :
        t \in TickRange, l \in {0, MaxAmount}, f \in Fees}

\* `data` is undefined, or lacks `pools` or `ticks`
NoData == [missing |-> TRUE]

SubgraphData(pools, ticks) == [pools |-> pools, ticks |-> ticks]

SubgraphAnswers ==
    {NoData} \cup {SubgraphData(pools, ticks) :
                      pools \in ListsUpTo(RawPools, 1),
                      ticks \in ListsUpTo(RawTicks, MaxRawTicks)}

\* outcomes of the call
GenUndefined == [kind |-> "undefined"]
GenThrew(error) == [kind |-> "threw", error |-> error]
GenState(p) == [kind |-> "state", state |-> p]

\* `let ticks: TickState[];` declares the array without creating it, so the
\* first `ticks.push` of the loop throws a TypeError, and with no raw tick
\* the state object is built with `ticks: undefined` (a record without the
\* field).  Nothing looks at the order or the uniqueness of data.ticks.
generateState(subgraphURL, data) ==
    IF ~subgraphURL
    THEN GenUndefined
    ELSE IF ~("pools" \in DOMAIN data /\ "ticks" \in DOMAIN data)
    THEN GenThrew("Error: Couldn't fetch the pools from the subgraph")
    ELSE IF Len(data.ticks) > 0
    THEN GenThrew("TypeError")
    ELSE IF Len(data.pools) = 0
    THEN GenThrew("TypeError")
    ELSE GenState([currentTick |-> data.pools[1].tick,
                   currentLiquidity |-> data.pools[1].liquidity,
                   fee |-> data.pools[1].fee])

\* one call of generateState on one answer of the subgraph
InitSnapshot ==
    /\ pool = PoolState(<<>>, 0, 0, InitializeFee)
    /\ hist = <<>>
    /\ msbCall = NoMsbCall
    /\ rec = NoRecovery
    /\ tickCall = NoTickCall
    /\ price = NoPriceCall
    /\ \E url \in BOOLEAN, data \in SubgraphAnswers :
          gen = [done |-> FALSE, idle |-> FALSE, subgraphURL |-> url,
                 data |-> data]

GenerateStateCall ==
    /\ ~gen.idle
    /\ ~gen.done
    /\ gen' = [gen EXCEPT !.done = TRUE] @@
                  [result |-> generateState(gen.subgraphURL, gen.data)]
    /\ UNCHANGED <<pool, hist, msbCall, rec, price, tickCall>>

NextSnapshot == GenerateStateCall

SpecSnapshot == InitSnapshot /\ [][NextSnapshot]_vars

\* the raw tick list is sorted ascending by index, with no index twice
SortedUnique(ticks) ==
    \A j, k \in 1..Len(ticks) : j < k => ticks[j].tickIdx < ticks[k].tickIdx

\* the ticks of a book that carries exactly the supplied raw ticks
TicksOfRaw(ticks) ==
    [k \in 1..Len(ticks) |->
        TickState(ticks[k].tickIdx, ticks[k].liquidityNet, ticks[k].upper)]

\* the subgraph answered with a pool and a tick list
Answered(g) ==
    /\ g.subgraphURL
    /\ "ticks" \in DOMAIN g.data
    /\ Len(g.data.pools) > 0

(***************************************************************************)
(* C19: snapshot recovery accepts a raw tick list only if its indices are  *)
(* sorted ascending and unique, and rejects it otherwise; the book built   *)
(* from an accepted snapshot carries exactly the supplied ticks,           *)
(* currentTick, currentLiquidity and fee.                                  *)
(***************************************************************************)
C19_SnapshotValidated ==
    (gen.done /\ Answered(gen))
    => IF SortedUnique(gen.data.ticks)
       THEN /\ gen.result.kind = "state"
            /\ gen.result.state =
                   PoolState(TicksOfRaw(gen.data.ticks),
                             gen.data.pools[1].tick,
                             gen.data.pools[1].liquidity,
                             gen.data.pools[1].fee)
       ELSE gen.result.kind = "threw"

(***************************************************************************)
(* Wholesale recovery of the subscriber's state.                           *)
(* generateState is the code of algebra.ts; what surrounds it (the queue   *)
(* of events that arrive while the recovery runs, and their replay when it *)
(* completes) belongs to the event subscriber base class, which is outside *)
(* src/, and follows spec.md section 5: events of blocks at or before the  *)
(* recovered block are discarded, later ones are replayed in order against *)
(* the recovered snapshot, each through processLog.                        *)
(***************************************************************************)
\* latest block a recovery asks for; events come from blocks 1..MaxBlock+1
MaxBlock == 1

\* most events queued while one recovery runs
MaxQueue == 2

RecoveryBlocks == 1..MaxBlock

EventBlocks == 1..(MaxBlock + 1)

Queued(n, log) == [block |-> n, log |-> log]

\* what generateState can produce for the answers of the subgraph
RecoveryResults == {generateState(TRUE, data) : data \in SubgraphAnswers}

RECURSIVE Replay(_, _, _)
Replay(state, queued, calls) ==
    IF queued = <<>>
    THEN [state |-> state, calls |-> calls]
    ELSE LET log == Head(queued).log
             r == processLog(state, log)
         IN  Replay(r.after, Tail(queued),
                    Append(calls, [log |-> log, before |-> state,
                                   after |-> r.after, returned |-> r.returned]))

\* the queued events of blocks after the recovered one
Later(r) == SelectSeq(r.queue, LAMBDA q : q.block > r.block)

InitRecovery ==
    /\ pool = PoolState(<<>>, 0, 0, InitializeFee)
    /\ hist = <<>>
    /\ msbCall = NoMsbCall
    /\ gen = NoGenCall
    /\ rec = NoRecovery
    /\ tickCall = NoTickCall
    /\ price = NoPriceCall

StartRecovery ==
    /\ rec.phase = "idle"
    /\ \E b \in RecoveryBlocks :
          rec' = [phase |-> "running", block |-> b, queue |-> <<>>]
    /\ UNCHANGED <<pool, hist, msbCall, gen, price, tickCall>>

QueueEvent ==
    /\ rec.phase = "running"
    /\ Len(rec.queue) < MaxQueue
    /\ \E log \in DecodedLogs, n \in EventBlocks :
          /\ rec.queue # <<>> => rec.queue[Len(rec.queue)].block <= n
          /\ rec' = [rec EXCEPT !.queue = Append(@, Queued(n, log))]
    /\ UNCHANGED <<pool, hist, msbCall, gen, price, tickCall>>

CompleteRecovery ==
    /\ rec.phase = "running"
    /\ \E r \in RecoveryResults :
          IF r.kind = "state"
          THEN LET replayed == Replay(r.state, Later(rec), <<>>)
               IN  /\ pool' = replayed.state
                   /\ hist' = replayed.calls
                   /\ rec' = [rec EXCEPT !.phase = "done"] @@
                                 [snapshot |-> r.state]
          ELSE /\ rec' = [rec EXCEPT !.phase = "failed"]
               /\ UNCHANGED <<pool, hist>>
    /\ UNCHANGED <<msbCall, gen, price, tickCall>>

NextRecovery ==
    \/ StartRecovery
    \/ QueueEvent
    \/ CompleteRecovery

SpecRecovery == InitRecovery /\ [][NextRecovery]_vars

(***************************************************************************)
(* C18: when a recovery completes while events were queued, the events of  *)
(* blocks at or before the recovered block are discarded and every event   *)
(* of a later block is applied, in emission order, to the recovered        *)
(* snapshot: the final book is the snapshot with exactly the later events  *)
(* applied.                                                                *)
(***************************************************************************)
C18_RecoveryReplaysLaterEvents ==
    rec.phase = "done"
    => /\ Len(hist) = Len(Later(rec))
       /\ \A k \in 1..Len(hist) :
             /\ hist[k].log = Later(rec)[k].log
             /\ hist[k].returned = "state"
             /\ hist[k].before = (IF k = 1 THEN rec.snapshot
                                           ELSE hist[k - 1].after)
       /\ pool = (IF hist = <<>> THEN rec.snapshot
                                 ELSE hist[Len(hist)].after)

(***************************************************************************)
(* Algebra.getBuyPrice / getSellPrice (algebra.ts 348-390).                *)
(* SwapMath.computeSwapStep is not under src/: its answers follow spec.md  *)
(* 4.3 (a step consumes between nothing and the whole remaining amount,    *)
(* produces a non-negative amount, and signals NoLiquidity when the        *)
(* liquidity is 0) and are an input of the call, one answer per iteration. *)
(* `amountOut` starts as ZERO, a JSBI object (internalConstants.ts 5), and *)
(* the code applies `+=` and `/` to it: converting a JSBI object to a      *)
(* primitive either throws or yields a string, depending on the jsbi       *)
(* release; `coerces` is that choice.                                      *)
(***************************************************************************)
\* iterations of the simulation loop that a call is followed for
MaxSteps == 3

StepAnswer(i, o) == [throws |-> FALSE, amountIn |-> i, amountOut |-> o]

StepThrows(error) == [throws |-> TRUE, error |-> error]

StepAnswers ==
    {StepThrows("Error")} \cup
        {StepAnswer(i, o) : i \in 0..MaxAmount, o \in 0..1}

RECURSIVE SeqsOfLen(_, _)
SeqsOfLen(S, n) ==
    IF n = 0
    THEN {<<>>}
    ELSE {Append(l, x) : l \in SeqsOfLen(S, n - 1), x \in S}

Min(a, b) == IF a <= b THEN a ELSE b

computeSwapStep(liquidity, amountRemaining, answer) ==
    IF liquidity = 0
    THEN StepThrows("NoLiquidity")
    ELSE IF answer.throws
    THEN answer
    ELSE StepAnswer(Min(answer.amountIn, amountRemaining), answer.amountOut)

\* what one iteration hands to TickMath.getSqrtRatioAtTick and to
\* SwapMath.computeSwapStep
StepCall(tick, liquidity, amountRemaining) ==
    [tick |-> tick, liquidity |-> liquidity,
     amountRemaining |-> amountRemaining]

\* outcomes of a pricing call: `calls` lists the iterations begun, and
\* `atReturn` tells that the loop was left and the return statement reached
PriceThrew(error, calls, consumed, produced, atReturn) ==
    [kind |-> "threw", error |-> error, iterations |-> Len(calls),
     calls |-> calls, consumed |-> consumed, produced |-> produced,
     atReturn |-> atReturn]

\* the loop is still going after MaxSteps iterations
PriceRunning(calls, consumed, produced) ==
    [kind |-> "running", iterations |-> Len(calls), calls |-> calls,
     consumed |-> consumed, produced |-> produced, atReturn |-> FALSE]

PriceReturned(value, calls, consumed, produced) ==
    [kind |-> "returned", value |-> value, iterations |-> Len(calls),
     calls |-> calls, consumed |-> consumed, produced |-> produced,
     atReturn |-> TRUE]

\* `return amountIn / amountOut`: a bigint divided by a JSBI object, or by
\* the string that `+=` made of it
DivideByAmountOut(coerces, calls, consumed, produced) ==
    IF calls = <<>> /\ ~coerces
    THEN PriceThrew("Error", calls, consumed, produced, TRUE)
    ELSE PriceThrew("TypeError", calls, consumed, produced, TRUE)

\* the while loop of getBuyPrice: currentTick and currentLiquidity are the
\* constants destructured before the loop, nothing counts the iterations
RECURSIVE BuyLoop(_, _, _, _, _, _, _)
BuyLoop(poolState, destAmount, answers, coerces, calls, consumed, produced) ==
    IF ~(destAmount > 0)
    THEN DivideByAmountOut(coerces, calls, consumed, produced)
    ELSE IF Len(calls) = Len(answers)
    THEN PriceRunning(calls, consumed, produced)
    ELSE LET call == StepCall(poolState.currentTick,
                              poolState.currentLiquidity, destAmount)
             step == computeSwapStep(call.liquidity, call.amountRemaining,
                                     answers[Len(calls) + 1])
             begun == Append(calls, call)
         IN  IF step.throws
             THEN PriceThrew(step.error, begun, consumed, produced, FALSE)
             ELSE IF ~coerces
             THEN PriceThrew("Error", begun, consumed + step.amountIn,
                             produced, FALSE)
             ELSE BuyLoop(poolState, destAmount - step.amountIn, answers,
                          coerces, begun, consumed + step.amountIn,
                          produced + step.amountOut)

getBuyPrice(poolState, destAmount, answers, coerces) ==
    BuyLoop(poolState, destAmount, answers, coerces, <<>>, 0, 0)

\* getSellPrice hands `destAmount`, a name that is not declared in it, to
\* computeSwapStep: the first iteration throws a ReferenceError
getSellPrice(poolState, srcAmount, answers, coerces) ==
    IF ~(srcAmount > 0)
    THEN DivideByAmountOut(coerces, <<>>, 0, 0)
    ELSE PriceThrew("ReferenceError",
                    <<StepCall(poolState.currentTick,
                               poolState.currentLiquidity, srcAmount)>>,
                    0, 0, FALSE)

(***************************************************************************)
(* Algebra.getPricesVolume (algebra.ts 427-510).                           *)
(***************************************************************************)
Undefined == [undefined |-> TRUE]

\* getPairState has an empty body (417-421): the promise resolves to
\* undefined
getPairState == Undefined

PriceOf(side, pairParam, amount, answers, coerces) ==
    IF side = "BUY"
    THEN getBuyPrice(pairParam, amount, answers, coerces)
    ELSE getSellPrice(pairParam, amount, answers, coerces)

\* a rejected promise anywhere lands in the catch block, which returns null
getPricesVolume(sameToken, limited, amounts, side, unitAmount, answers, coerces) ==
    IF sameToken
    THEN Null
    ELSE IF limited
    THEN Null
    ELSE LET pairParam == getPairState
             unit == PriceOf(side, pairParam, unitAmount, answers, coerces)
             prices == [k \in 1..Len(amounts) |->
                           PriceOf(side, pairParam, amounts[k], answers,
                                   coerces)]
         IN  IF pairParam = Undefined
             THEN Null
             ELSE IF unit.kind # "returned"
             THEN Null
             ELSE IF unit.value = 0
             THEN Null
             ELSE IF \E k \in 1..Len(amounts) : prices[k].kind # "returned"
             THEN Null
             ELSE [isNull |-> FALSE,
                   prices |-> [k \in 1..Len(amounts) |-> prices[k].value],
                   unit |-> unit.value]

(***************************************************************************)
(* One pricing call on given arguments.                                    *)
(***************************************************************************)
PricingBooks == {b \in InitBooks : Len(b.ticks) <= 2}

PriceAmounts == 0..MaxAmount

Sides == {"BUY", "SELL"}

InitPricing ==
    /\ pool = PoolState(<<>>, 0, 0, InitializeFee)
    /\ hist = <<>>
    /\ msbCall = NoMsbCall
    /\ gen = NoGenCall
    /\ rec = NoRecovery
    /\ tickCall = NoTickCall
    /\ \E answers \in SeqsOfLen(StepAnswers, MaxSteps), coerces \in BOOLEAN :
          \/ \E call \in {"getBuyPrice", "getSellPrice"},
                poolState \in PricingBooks, amount \in PriceAmounts :
                price = [done |-> FALSE, idle |-> FALSE, call |-> call,
                         poolState |-> poolState, amount |-> amount,
                         answers |-> answers, coerces |-> coerces]
          \/ \E sameToken \in BOOLEAN, limited \in BOOLEAN, side \in Sides,
                amounts \in ListsUpTo(Amounts, 2) :
                price = [done |-> FALSE, idle |-> FALSE,
                         call |-> "getPricesVolume", sameToken |-> sameToken,
                         limited |-> limited, side |-> side,
                         amounts |-> amounts, answers |-> answers,
                         coerces |-> coerces]

GetBuyPriceCall ==
    /\ ~price.idle
    /\ ~price.done
    /\ price.call = "getBuyPrice"
    /\ price' = [price EXCEPT !.done = TRUE] @@
                    [result |-> getBuyPrice(price.poolState, price.amount,
                                            price.answers, price.coerces)]
    /\ UNCHANGED <<pool, hist, msbCall, gen, rec, tickCall>>

GetSellPriceCall ==
    /\ ~price.idle
    /\ ~price.done
    /\ price.call = "getSellPrice"
    /\ price' = [price EXCEPT !.done = TRUE] @@
                    [result |-> getSellPrice(price.poolState, price.amount,
                                             price.answers, price.coerces)]
    /\ UNCHANGED <<pool, hist, msbCall, gen, rec, tickCall>>

GetPricesVolumeCall ==
    /\ ~price.idle
    /\ ~price.done
    /\ price.call = "getPricesVolume"
    /\ price' = [price EXCEPT !.done = TRUE] @@
                    [result |-> getPricesVolume(price.sameToken, price.limited,
                                                price.amounts, price.side, 1,
                                                price.answers, price.coerces)]
    /\ UNCHANGED <<pool, hist, msbCall, gen, rec, tickCall>>

NextPricing ==
    \/ GetBuyPriceCall
    \/ GetSellPriceCall
    \/ GetPricesVolumeCall

SpecPricing == InitPricing /\ [][NextPricing]_vars

\* a finished call of one of the two simulations
Simulated ==
    /\ price.done
    /\ price.call \in {"getBuyPrice", "getSellPrice"}

(***************************************************************************)
(* C13: the simulation loop (exact input and exact output) terminates and  *)
(* performs at most ticks.length + 1 iterations, whatever the book and the *)
(* requested amount, steps that consume nothing included.                  *)
(***************************************************************************)
C13_LoopBoundedByTicks ==
    Simulated
    => /\ price.result.kind # "running"
       /\ price.result.iterations <= Len(price.poolState.ticks) + 1

\* the book cannot fill a positive request: it has no liquidity in range,
\* or no tick at all to move to
Unfillable ==
    /\ price.amount > 0
    /\ \/ price.poolState.currentLiquidity = 0
       \/ price.poolState.ticks = <<>>

(***************************************************************************)
(* C14: a simulation that cannot be filled ends with an explicit           *)
(* InsufficientLiquidity failure, and never returns a price as a success.  *)
(***************************************************************************)
C14_UnfillableFailsExplicitly ==
    (Simulated /\ Unfillable)
    => /\ price.result.kind = "threw"
       /\ price.result.error = "InsufficientLiquidity"

(***************************************************************************)
(* C15: a simulation whose loop has used up the requested amount returns   *)
(* the accumulated amount (the summed step outputs for exact input, the    *)
(* summed step inputs for exact output), the consumed amounts adding up to *)
(* the request; it does not return a ratio.                                *)
(***************************************************************************)
C15_ReturnsAccumulatedAmount ==
    (Simulated /\ price.result.atReturn)
    => /\ price.result.kind = "returned"
       /\ price.result.consumed = price.amount
       /\ price.result.value = (IF price.call = "getSellPrice"
                                THEN price.result.produced
                                ELSE price.result.consumed)

(***************************************************************************)
(* C16: a pricing query over a sequence of amounts has one entry per       *)
(* amount, in order; a failure while pricing one amount fails that entry   *)
(* only, never the whole result.                                           *)
(***************************************************************************)
C16_OneEntryPerAmount ==
    (/\ price.done
     /\ price.call = "getPricesVolume"
     /\ ~price.sameToken
     /\ ~price.limited
     /\ price.amounts # <<>>)
    => /\ ~price.result.isNull
       /\ Len(price.result.prices) = Len(price.amounts)

(***************************************************************************)
(* Pricing calls between the events of a pool.  getBuyPrice and            *)
(* getSellPrice take the book apart in their first statement (349, 371);   *)
(* the book they are handed is the subscriber's current state object, as   *)
(* spec.md section 5 has it (getPairState, which would fetch it, is empty).*)
(***************************************************************************)
PricingRead ==
    /\ price.idle
    /\ price' = [done |-> TRUE, idle |-> FALSE, call |-> "read",
                 observed |-> pool, seenAt |-> Len(hist)]
    /\ UNCHANGED <<pool, hist, msbCall, gen, rec, tickCall>>

NextReaders ==
    \/ Next
    \/ PricingRead

SpecReaders == Init /\ [][NextReaders]_vars

\* the book in force after the first k events: an event that failed leaves
\* the book before it in force
RECURSIVE InForce(_)
InForce(k) ==
    IF k = 0
    THEN IF hist = <<>> THEN pool ELSE hist[1].before
    ELSE IF hist[k].returned = "state"
    THEN hist[k].after
    ELSE InForce(k - 1)

(***************************************************************************)
(* C17: a pricing call between events observes the complete book before an *)
(* event or the complete book after it, never a book with a part of an     *)
(* event's update (a Mint or Burn with one boundary adjusted, ticks        *)
(* appended but not sorted).                                               *)
(***************************************************************************)
C17_ReaderSeesWholeBook ==
    (price.done /\ price.call = "read")
    => price.observed = InForce(price.seenAt)

(***************************************************************************)
(* Algebra.getPoolIdentifiers (algebra.ts 327-346) and the head of         *)
(* getPricesVolume (436-453), which build the same identifier              *)
(* `${dexKey}_${lower}_${higher}` from the lower-cased addresses.  The     *)
(* tokens are not the native token, which wrapETH alone would replace.     *)
(***************************************************************************)
Addresses == {"0xAA", "0xaa", "0xbb", "0xcc"}

toLowerCase(a) == IF a = "0xAA" THEN "0xaa" ELSE a

\* position of a lower-cased address in the order of strings
Rank(a) == CASE a = "0xaa" -> 1 [] a = "0xbb" -> 2 [] a = "0xcc" -> 3

\* [from, to].sort((a, b) => (a > b ? 1 : -1)).join('_') after the dexKey
PoolIdentifierOf(from, to) ==
    LET a == toLowerCase(from)
        b == toLowerCase(to)
    IN  IF Rank(a) > Rank(b) THEN <<"algebra", b, a>> ELSE <<"algebra", a, b>>

SameToken(from, to) == toLowerCase(from) = toLowerCase(to)

getPoolIdentifiers(srcToken, destToken) ==
    IF SameToken(srcToken, destToken)
    THEN <<>>
    ELSE <<PoolIdentifierOf(srcToken, destToken)>>

\* limitPools && limitPools.every(p => p !== poolIdentifier)
LimitExcludes(limitPools, from, to) ==
    \A k \in 1..Len(limitPools) : limitPools[k] # PoolIdentifierOf(from, to)

\* iterations of the simulation loop followed inside a query
MaxQuerySteps == 1

\* the flow of the integration test: getPoolIdentifiers for a pair, then
\* getPricesVolume with the list it returned as limitPools
InitQuery ==
    /\ pool = PoolState(<<>>, 0, 0, InitializeFee)
    /\ hist = <<>>
    /\ msbCall = NoMsbCall
    /\ gen = NoGenCall
    /\ rec = NoRecovery
    /\ tickCall = NoTickCall
    /\ \E srcToken \in Addresses, destToken \in Addresses, side \in Sides,
          amounts \in ListsUpTo(PriceAmounts, 2),
          answers \in SeqsOfLen(StepAnswers, MaxQuerySteps),
          coerces \in BOOLEAN :
          price = [done |-> FALSE, idle |-> FALSE, call |-> "query",
                   identified |-> FALSE, srcToken |-> srcToken,
                   destToken |-> destToken, side |-> side,
                   amounts |-> amounts, answers |-> answers,
                   coerces |-> coerces]

GetPoolIdentifiersCall ==
    /\ ~price.idle
    /\ ~price.done
    /\ price.call = "query"
    /\ ~price.identified
    /\ \E a \in Addresses, b \in Addresses :
          price' = [price EXCEPT !.identified = TRUE] @@
                       [askedFor |-> <<a, b>>,
                        pools |-> getPoolIdentifiers(a, b)]
    /\ UNCHANGED <<pool, hist, msbCall, gen, rec, tickCall>>

LimitedPricesVolumeCall ==
    /\ ~price.idle
    /\ ~price.done
    /\ price.call = "query"
    /\ price.identified
    /\ price' = [price EXCEPT !.done = TRUE] @@
                    [result |->
                        getPricesVolume(
                            SameToken(price.srcToken, price.destToken),
                            LimitExcludes(price.pools, price.srcToken,
                                          price.destToken),
                            price.amounts, price.side, 1, price.answers,
                            price.coerces)]
    /\ UNCHANGED <<pool, hist, msbCall, gen, rec, tickCall>>

NextQuery ==
    \/ GetPoolIdentifiersCall
    \/ LimitedPricesVolumeCall

SpecQuery == InitQuery /\ [][NextQuery]_vars

(***************************************************************************)
(* C22: for two distinct tokens, getPricesVolume called with limitPools    *)
(* equal to what getPoolIdentifiers returned for the same pair returns a   *)
(* non-null result, for SELL and for BUY, also when the amounts contain 0. *)
(***************************************************************************)
C22_IdentifiedPoolIsPriced ==
    (/\ price.done
     /\ price.call = "query"
     /\ ~SameToken(price.srcToken, price.destToken)
     /\ price.askedFor = <<price.srcToken, price.destToken>>)
    => price.result # Null

(***************************************************************************)
(* Crossing a tick during a simulation (spec.md 4.3 and 4.5).  The answer  *)
(* of computeSwapStep names the amount that moves the price to the target: *)
(* the step reaches the boundary when the remaining amount affords it.     *)
(***************************************************************************)
ReachedTarget(answer, amountRemaining) ==
    /\ ~answer.throws
    /\ answer.amountIn <= amountRemaining

\* the next boundary above `tick`, or at or below it
NextUp(ticks, tick, e) ==
    /\ e.tickIdx > tick
    /\ \A f \in Entries(ticks) : f.tickIdx > tick => e.tickIdx <= f.tickIdx

NextDown(ticks, tick, e) ==
    /\ e.tickIdx <= tick
    /\ \A f \in Entries(ticks) : f.tickIdx <= tick => f.tickIdx <= e.tickIdx

\* `after` is `before` with one boundary crossed, upward or downward
Crossed(ticks, before, after) ==
    \E e \in Entries(ticks) :
        \/ /\ NextUp(ticks, before.tick, e)
           /\ after.tick = e.tickIdx
           /\ after.liquidity = before.liquidity + SignedNet(e)
        \/ /\ NextDown(ticks, before.tick, e)
           /\ after.tick \in {e.tickIdx, e.tickIdx - 1}
           /\ after.liquidity = before.liquidity - SignedNet(e)

(***************************************************************************)
(* C23: whenever a step of a simulation ends exactly at the next tick      *)
(* boundary, the working liquidity changes by that tick's signed delta     *)
(* (as stored going up, negated going down) and the working tick advances  *)
(* to the boundary before the next step: the next step is handed the       *)
(* post-crossing liquidity, not the book's currentLiquidity.               *)
(***************************************************************************)
C23_CrossingUpdatesWorkingState ==
    Simulated
    => \A k \in 1..(Len(price.result.calls) - 1) :
          (/\ ReachedTarget(price.answers[k],
                            price.result.calls[k].amountRemaining)
           /\ price.poolState.ticks # <<>>)
          => Crossed(price.poolState.ticks, price.result.calls[k],
                     price.result.calls[k + 1])

\* the calls of processLog on a decoded event that has no handler
UnhandledCalls ==
    {c \in Calls : c.log.decodes /\ c.log.event.name \notin HandlerNames}

(***************************************************************************)
(* C24: processLog on a decoded log whose event is none of Swap,           *)
(* ChangeFee, Burn, Mint, Initialize returns the given state with every    *)
(* field unchanged, and does not return null.                              *)
(***************************************************************************)
C24_UnhandledEventReturnsState ==
    \A c \in UnhandledCalls :
        /\ c.returned = "state"
        /\ c.after = c.before

\* a Collect log has been processed on a book that has ticks
C24_Witness ==
    \E c \in UnhandledCalls :
        /\ c.log.event.name = "Collect"
        /\ c.before.ticks # <<>>
        /\ c.returned = "state"

\* the book after two logs, processed one after the other
AfterBoth(book, first, second) ==
    processLog(processLog(book, first).after, second).after

\* two Mint events have been processed, and nothing else
TwoMints ==
    /\ Len(hist) = 2
    /\ \A k \in 1..2 : hist[k].log.decodes /\ hist[k].log.event.name = "Mint"

(***************************************************************************)
(* C25: Mint events commute: from any book, Mint(a, b, L1) then            *)
(* Mint(c, d, L2) and the same two in the other order give books with the  *)
(* same ticks (indices, deltas, upper flags) and the same currentLiquidity.*)
(***************************************************************************)
C25_MintsCommute ==
    TwoMints
    => LET swapped == AfterBoth(hist[1].before, hist[2].log, hist[1].log)
       IN  /\ swapped.ticks = hist[2].after.ticks
           /\ swapped.currentLiquidity = hist[2].after.currentLiquidity

(***************************************************************************)
(* One call of getTickIdx (algebra.ts 136-149) on a ticks array that is    *)
(* strictly ascending by tickIdx.                                          *)
(***************************************************************************)
\* the tick indices of the arrays searched lie in -MaxSearchTick..MaxSearchTick
MaxSearchTick == 3

SearchRange == (0 - MaxSearchTick)..MaxSearchTick

\* the strictly ascending array whose tick indices are the set S
RECURSIVE AscendingTicks(_, _, _)
AscendingTicks(S, delta, upper) ==
    IF S = {}
    THEN <<>>
    ELSE LET top == MaxOf(S)
         IN  Append(AscendingTicks(S \ {top}, delta, upper),
                    TickState(top, delta, upper))

InitTickIdx ==
    /\ pool = PoolState(<<>>, 0, 0, InitializeFee)
    /\ hist = <<>>
    /\ msbCall = NoMsbCall
    /\ gen = NoGenCall
    /\ rec = NoRecovery
    /\ price = NoPriceCall
    /\ \E S \in SUBSET SearchRange, upper \in BOOLEAN,
          tick \in ((0 - MaxSearchTick) - 1)..(MaxSearchTick + 1) :
          tickCall = [done |-> FALSE, idle |-> FALSE, tick |-> tick,
                      ticks |-> AscendingTicks(S, 1, upper)]

GetTickIdxCall ==
    /\ ~tickCall.idle
    /\ ~tickCall.done
    /\ tickCall' = [tickCall EXCEPT !.done = TRUE] @@
                       [result |-> getTickIdx(tickCall.tick, tickCall.ticks)]
    /\ UNCHANGED <<pool, hist, msbCall, gen, rec, price>>

NextTickIdx == GetTickIdxCall

SpecTickIdx == InitTickIdx /\ [][NextTickIdx]_vars

\* the 0-based positions of the entries whose tickIdx is `tick`
PositionsOf(tick, ticks) ==
    {k - 1 : k \in {j \in 1..Len(ticks) : ticks[j].tickIdx = tick}}

(***************************************************************************)
(* C26: for every ticks sequence strictly ascending by tickIdx and every   *)
(* tick t, getTickIdx(t, ticks) terminates and returns the index i with    *)
(* ticks[i].tickIdx = t when there is one, and -1 otherwise (the empty     *)
(* sequence included).                                                     *)
(***************************************************************************)
C26_GetTickIdxFindsEntry ==
    tickCall.done
    => IF PositionsOf(tickCall.tick, tickCall.ticks) = {}
       THEN tickCall.result = -1
       ELSE tickCall.result \in PositionsOf(tickCall.tick, tickCall.ticks)

\* the last entry of an array of three or more has been found
C26_Witness ==
    /\ tickCall.done
    /\ Len(tickCall.ticks) >= 3
    /\ tickCall.result = Len(tickCall.ticks) - 1
    /\ tickCall.ticks[Len(tickCall.ticks)].tickIdx = tickCall.tick

=============================================================================
